---- MODULE Spec2Model ----
\* A model of the skillsmp command-line client (src/src/skillsmp/__init__.py):
\* argument parsing, credential resolution, the single HTTP request and the
\* rendering of its outcome, as one invocation of main().
EXTENDS Integers, Sequences, FiniteSets, TLC

\* ------------------------------------------------------------------ bounds
\* Longest argument list enumerated by the argument-parsing specification.
MaxArgs == 4
\* Limits -MaxLimit..MaxLimit are enumerated by the --limit specification.
MaxLimit == 103
\* Longest dotfile (in lines) enumerated.
MaxLines == 2
\* Most results in one enumerated search response.
MaxEntries == 2

\* The largest star count formatted.
MaxStars == 2500

\* ------------------------------------------------------- string primitives
Char(s, i) == SubSeq(s, i, i)

StartsWith(s, p) == Len(s) >= Len(p) /\ SubSeq(s, 1, Len(p)) = p

IsSpace(c) == c \in {" ", "\t", "\n", "\r"}

RECURSIVE LStrip(_)
LStrip(s) == IF Len(s) > 0 /\ IsSpace(Char(s, 1))
             THEN LStrip(SubSeq(s, 2, Len(s)))
             ELSE s

RECURSIVE RStrip(_)
RStrip(s) == IF Len(s) > 0 /\ IsSpace(Char(s, Len(s)))
             THEN RStrip(SubSeq(s, 1, Len(s) - 1))
             ELSE s

\* str.strip()
Strip(s) == RStrip(LStrip(s))

IsQuote(c) == c \in {"\"", "'"}

RECURSIVE LStripQuotes(_)
LStripQuotes(s) == IF Len(s) > 0 /\ IsQuote(Char(s, 1))
                   THEN LStripQuotes(SubSeq(s, 2, Len(s)))
                   ELSE s

RECURSIVE RStripQuotes(_)
RStripQuotes(s) == IF Len(s) > 0 /\ IsQuote(Char(s, Len(s)))
                   THEN RStripQuotes(SubSeq(s, 1, Len(s) - 1))
                   ELSE s

\* str.strip("\"'")
StripQuotes(s) == RStripQuotes(LStripQuotes(s))

RECURSIVE FindChar(_, _, _)
\* index of the first occurrence of c in s at or after i, 0 when there is none
FindChar(s, c, i) == IF i > Len(s) THEN 0
                     ELSE IF Char(s, i) = c THEN i
                     ELSE FindChar(s, c, i + 1)

\* str.partition(c): the text before and after the first c
Partition(s, c) ==
    LET k == FindChar(s, c, 1)
    IN  IF k = 0 THEN [head |-> s, found |-> FALSE, tail |-> ""]
        ELSE [head |-> SubSeq(s, 1, k - 1), found |-> TRUE,
              tail |-> SubSeq(s, k + 1, Len(s))]

Digits == {"0", "1", "2", "3", "4", "5", "6", "7", "8", "9"}

DigitVal(c) == CASE c = "0" -> 0 [] c = "1" -> 1 [] c = "2" -> 2
                 [] c = "3" -> 3 [] c = "4" -> 4 [] c = "5" -> 5
                 [] c = "6" -> 6 [] c = "7" -> 7 [] c = "8" -> 8
                 [] c = "9" -> 9

DigitChar(d) == CASE d = 0 -> "0" [] d = 1 -> "1" [] d = 2 -> "2"
                  [] d = 3 -> "3" [] d = 4 -> "4" [] d = 5 -> "5"
                  [] d = 6 -> "6" [] d = 7 -> "7" [] d = 8 -> "8"
                  [] d = 9 -> "9"

\* The digits int() accepts: decimal digits, with single underscores allowed
\* between two digits.
AllDigits(s) ==
    /\ Len(s) > 0
    /\ \A i \in 1..Len(s) : Char(s, i) \in Digits \cup {"_"}
    /\ Char(s, 1) # "_" /\ Char(s, Len(s)) # "_"
    /\ \A i \in 1..(Len(s) - 1) : ~(Char(s, i) = "_" /\ Char(s, i + 1) = "_")

RECURSIVE DigitsValue(_, _)
DigitsValue(s, acc) ==
    IF Len(s) = 0 THEN acc
    ELSE IF Char(s, 1) = "_" THEN DigitsValue(SubSeq(s, 2, Len(s)), acc)
    ELSE DigitsValue(SubSeq(s, 2, Len(s)), 10 * acc + DigitVal(Char(s, 1)))

\* int(s): surrounding whitespace and one leading sign are accepted, the rest
\* must be decimal digits; anything else raises ValueError (ok = FALSE).
IntParse(s) ==
    LET t    == Strip(s)
        sgn  == Len(t) > 0 /\ Char(t, 1) \in {"+", "-"}
        body == IF sgn THEN SubSeq(t, 2, Len(t)) ELSE t
    IN  IF AllDigits(body)
        THEN [ok |-> TRUE,
              v  |-> IF sgn /\ Char(t, 1) = "-" THEN 0 - DigitsValue(body, 0)
                     ELSE DigitsValue(body, 0)]
        ELSE [ok |-> FALSE, v |-> 0]

RECURSIVE NatStr(_)
NatStr(n) == IF n < 10 THEN DigitChar(n)
             ELSE NatStr(n \div 10) \o DigitChar(n % 10)

\* str(n) for an integer n
IntStr(n) == IF n < 0 THEN "-" \o NatStr(0 - n) ELSE NatStr(n)

RECURSIVE Join(_)
\* " ".join(parts)
Join(parts) == IF Len(parts) = 0 THEN ""
               ELSE IF Len(parts) = 1 THEN parts[1]
               ELSE parts[1] \o " " \o Join(Tail(parts))

\* ------------------------------------------------------------ output lines
\* One print() to a stream: the kind of line and its text.
Line(kind, text) == [kind |-> kind, text |-> text]

\* ---------------------------------------------------------- _parse_args
NoValue == [some |-> FALSE, v |-> ""]

Value(x) == [some |-> TRUE, v |-> x]

\* The locals of _parse_args before the scan, with the streams it has
\* written and the SystemExit it has raised (exited, code).
ScanStart ==
    [mode |-> "search", limit |-> NoValue, page |-> NoValue, sort |-> NoValue,
     output_json |-> FALSE, output_plain |-> FALSE, query_parts |-> <<>>,
     exited |-> FALSE, code |-> 0, out |-> <<>>, err |-> <<>>]

\* raise SystemExit(code) after printing one line to standard output
ExitOut(s, kind, text) ==
    [s EXCEPT !.exited = TRUE, !.code = 0, !.out = Append(@, Line(kind, text))]

\* _die(msg)
Die(s, msg) ==
    [s EXCEPT !.exited = TRUE, !.code = 2,
              !.err = @ \o <<Line("usage", "skillsmp: " \o msg),
                             Line("try_help", "Try \"skillsmp --help\" for usage.")>>]

\* Rest with the slice cut after its first token: argv[i:i+1]
RestFirstOnly(argv, i) == IF i > Len(argv) THEN <<>> ELSE SubSeq(argv, i, i)

\* argv[i:], the tokens from position i (1-based) to the end
Rest(argv, i) == SubSeq(argv, i, Len(argv))

RECURSIVE ScanLoop(_, _, _)
\* The while loop of _parse_args from position i (1-based) with locals s.
ScanLoop(argv, i, s) ==
    IF i > Len(argv) THEN s
    ELSE LET arg == argv[i] IN
      IF arg \in {"-h", "--help"} THEN ExitOut(s, "full_help", "FULL_HELP")
      ELSE IF arg = "--version" THEN ExitOut(s, "version", "skillsmp 1.0.0")
      ELSE IF arg \in {"-a", "--ai"}
        THEN ScanLoop(argv, i + 1, [s EXCEPT !.mode = "ai"])
      ELSE IF arg \in {"-j", "--json"}
        THEN ScanLoop(argv, i + 1, [s EXCEPT !.output_json = TRUE])
      ELSE IF arg = "--plain"
        THEN ScanLoop(argv, i + 1, [s EXCEPT !.output_plain = TRUE])
      ELSE IF arg \in {"-n", "--limit"}
        THEN IF i + 1 > Len(argv)
             THEN Die(s, "flag " \o arg \o " requires a value")
             ELSE ScanLoop(argv, i + 2, [s EXCEPT !.limit = Value(argv[i + 1])])
      ELSE IF arg \in {"-s", "--sort"}
        THEN IF i + 1 > Len(argv)
             THEN Die(s, "flag " \o arg \o " requires a value")
             ELSE ScanLoop(argv, i + 2, [s EXCEPT !.sort = Value(argv[i + 1])])
      ELSE IF arg \in {"-p", "--page"}
        THEN IF i + 1 > Len(argv)
             THEN Die(s, "flag " \o arg \o " requires a value")
             ELSE ScanLoop(argv, i + 2, [s EXCEPT !.page = Value(argv[i + 1])])
      ELSE IF arg = "--"
        THEN [s EXCEPT !.query_parts = Rest(argv, i + 1)]
      ELSE IF StartsWith(arg, "-")
        THEN Die(s, "unknown flag: " \o arg)
      ELSE [s EXCEPT !.query_parts = Rest(argv, i)]

\* The result of _parse_args when it raised SystemExit: the status and the
\* lines written, with the locals as the scan left them (scan_done: the loop
\* ended without raising).
ParseExit(s, scan_done) ==
    [exited |-> TRUE, code |-> s.code, out |-> s.out, err |-> s.err,
     mode |-> s.mode, query |-> "", limit |-> 0, page |-> 0, sort |-> "",
     json |-> s.output_json, plain |-> s.output_plain,
     scan_done |-> scan_done, query_parts |-> s.query_parts,
     limit_raw |-> s.limit, page_raw |-> s.page, sort_raw |-> s.sort]

\* The dict _parse_args returns, with the locals as the scan left them.
ParseReturn(s, limit, page) ==
    [exited |-> FALSE, code |-> 0, out |-> s.out, err |-> s.err,
     mode |-> s.mode, query |-> Join(s.query_parts),
     limit |-> IF s.limit.some THEN limit ELSE 10,
     page |-> IF s.page.some THEN page ELSE 1,
     sort |-> IF s.sort.some THEN s.sort.v ELSE "stars",
     json |-> s.output_json, plain |-> s.output_plain,
     scan_done |-> TRUE, query_parts |-> s.query_parts,
     limit_raw |-> s.limit, page_raw |-> s.page, sort_raw |-> s.sort]

\* The conditions of the checks after the scan.
\* line 392: if not query_parts
NoQuery(s) == s.query_parts = <<>>

\* BothFormats with the second flag negated
BothFormatsNegated(s) == s.output_json /\ ~s.output_plain

\* line 397: if output_json and output_plain
BothFormats(s) == s.output_json /\ s.output_plain

\* lines 399-403: limit is given and int(limit) raises ValueError
LimitNotNumber(s) == s.limit.some /\ ~IntParse(s.limit.v).ok

\* LimitOutOfRange with the upper end excluded: 1 <= limit < 100
LimitOutOfRangeStrict(s) ==
    s.limit.some /\ ~(1 <= IntParse(s.limit.v).v /\ IntParse(s.limit.v).v < 100)

\* line 404: if not 1 <= limit <= 100
LimitOutOfRange(s) ==
    s.limit.some /\ ~(1 <= IntParse(s.limit.v).v /\ IntParse(s.limit.v).v <= 100)

\* lines 407-411: page is given and int(page) raises ValueError
PageNotNumber(s) == s.page.some /\ ~IntParse(s.page.v).ok

\* line 413: sort is given and is neither accepted value
SortInvalid(s) == s.sort.some /\ s.sort.v \notin {"stars", "recent"}

\* AiWithPaging with sort left out of the tuple
AiWithPagingNoSort(s) == s.mode = "ai" /\ (s.limit.some \/ s.page.some)

\* line 416: ai mode with any of limit, page, sort given
AiWithPaging(s) == s.mode = "ai" /\ (s.limit.some \/ s.page.some \/ s.sort.some)

\* Validate with the mode check of line 416 moved ahead of the limit check.
ValidateAiFirst(s) ==
    IF NoQuery(s)
      THEN ParseExit([s EXCEPT !.exited = TRUE, !.code = 2,
                        !.err = Append(@, Line("concise_help", "CONCISE_HELP"))], TRUE)
    ELSE IF BothFormats(s)
      THEN ParseExit(Die(s, "--json and --plain are mutually exclusive"), TRUE)
    ELSE IF AiWithPaging(s)
      THEN ParseExit(Die(s, "--limit, --page, --sort do not apply to --ai search"), TRUE)
    ELSE IF LimitNotNumber(s)
      THEN ParseExit(Die(s, "--limit must be a number (got: " \o s.limit.v \o ")"), TRUE)
    ELSE IF LimitOutOfRange(s)
      THEN ParseExit(Die(s, "--limit must be 1-100 (got: "
                            \o IntStr(IntParse(s.limit.v).v) \o ")"), TRUE)
    ELSE IF PageNotNumber(s)
      THEN ParseExit(Die(s, "--page must be a number (got: " \o s.page.v \o ")"), TRUE)
    ELSE IF SortInvalid(s)
      THEN ParseExit(Die(s, "--sort must be 'stars' or 'recent' (got: " \o s.sort.v \o ")"), TRUE)
    ELSE ParseReturn(s, IntParse(s.limit.v).v, IntParse(s.page.v).v)

\* The checks of _parse_args after the scan, in the order of the code.
Validate(s) ==
    IF NoQuery(s)
      THEN ParseExit([s EXCEPT !.exited = TRUE, !.code = 2,
                        !.err = Append(@, Line("concise_help", "CONCISE_HELP"))], TRUE)
    ELSE IF BothFormats(s)
      THEN ParseExit(Die(s, "--json and --plain are mutually exclusive"), TRUE)
    ELSE IF LimitNotNumber(s)
      THEN ParseExit(Die(s, "--limit must be a number (got: " \o s.limit.v \o ")"), TRUE)
    ELSE IF LimitOutOfRange(s)
      THEN ParseExit(Die(s, "--limit must be 1-100 (got: "
                            \o IntStr(IntParse(s.limit.v).v) \o ")"), TRUE)
    ELSE IF PageNotNumber(s)
      THEN ParseExit(Die(s, "--page must be a number (got: " \o s.page.v \o ")"), TRUE)
    ELSE IF SortInvalid(s)
      THEN ParseExit(Die(s, "--sort must be 'stars' or 'recent' (got: " \o s.sort.v \o ")"), TRUE)
    ELSE IF AiWithPaging(s)
      THEN ParseExit(Die(s, "--limit, --page, --sort do not apply to --ai search"), TRUE)
    ELSE ParseReturn(s, IntParse(s.limit.v).v, IntParse(s.page.v).v)

\* _parse_args(argv)
ParseArgs(argv) ==
    LET s == ScanLoop(argv, 1, ScanStart)
    IN  IF s.exited THEN ParseExit(s, FALSE) ELSE Validate(s)

\* ------------------------------------------------------ credential lookup
KEY_NAME == "SKILLSMP_API_KEY"

\* os.environ.get(name, "")
EnvGet(env, name) == IF name \in DOMAIN env THEN env[name] ELSE ""

\* LoadLine without the `key not in os.environ` test of line 99: the file's
\* value replaces the one the environment holds.
LoadLineOverwrite(env, raw) ==
    LET line == Strip(raw)
        body == IF StartsWith(line, "export ") THEN SubSeq(line, 8, Len(line))
                ELSE line
        parts == Partition(body, "=")
        key == Strip(parts.head)
        val == StripQuotes(Strip(parts.tail))
    IN  IF line = "" \/ StartsWith(line, "#") THEN env
        ELSE IF key # "" THEN (key :> val) @@ env
        ELSE env

\* One iteration of the loop of _load_env_file over a line of ~/.env.
LoadLine(env, raw) ==
    LET line == Strip(raw)
        body == IF StartsWith(line, "export ") THEN SubSeq(line, 8, Len(line))
                ELSE line
        parts == Partition(body, "=")
        key == Strip(parts.head)
        val == StripQuotes(Strip(parts.tail))
    IN  IF line = "" \/ StartsWith(line, "#") THEN env
        ELSE IF key # "" /\ key \notin DOMAIN env THEN env @@ (key :> val)
        ELSE env

RECURSIVE LoadLines(_, _)
LoadLines(env, lines) ==
    IF Len(lines) = 0 THEN env
    ELSE LoadLines(LoadLine(env, Head(lines)), Tail(lines))

\* _load_env_file(): the environment after sourcing ~/.env, if it is a file.
LoadEnvFile(env, file) ==
    IF ~file.exists THEN env ELSE LoadLines(env, file.lines)

\* KeyMissing as "key is None", which the default "" of environ.get never is
KeyMissingIsNone(key) == FALSE

\* lines 105 and 108: if not key
KeyMissing(key) == key = ""

\* _get_api_key(): the environment it leaves, the key it returns and whether
\* it raised SystemExit, with the status.
GetApiKey(env, file) ==
    LET k1   == EnvGet(env, KEY_NAME)
        env2 == IF KeyMissing(k1) THEN LoadEnvFile(env, file) ELSE env
        k2   == EnvGet(env2, KEY_NAME)
    IN  [environ |-> env2, key |-> k2,
         opened |-> (KeyMissing(k1) /\ file.exists),
         exited |-> KeyMissing(k2), code |-> IF KeyMissing(k2) THEN 1 ELSE 0,
         err |-> IF KeyMissing(k2)
                 THEN <<Line("config_error",
                        "skillsmp: SKILLSMP_API_KEY not set. Export it or add to ~/.env.")>>
                 ELSE <<>>]

\* ----------------------------------------------------------- _format_stars
\* 2^p modulo 1000
RECURSIVE Pow2Mod1000(_)
Pow2Mod1000(p) == IF p = 0 THEN 1 ELSE (2 * Pow2Mod1000(p - 1)) % 1000

\* The binary exponent of n / 1000 for n >= 1000: the e with
\* 2^e <= n / 1000 < 2^(e+1), counted up from e.
RECURSIVE BinaryExponent(_, _)
BinaryExponent(n, e) ==
    IF n < 1000 * 2^(e + 1) THEN e ELSE BinaryExponent(n, e + 1)

\* n / 1000 is a correctly rounded double: its 53-bit significand is the
\* quotient of n * 2^p by 1000, p = 52 - exponent, rounded to nearest. This is
\* the remainder of that division: 0 when n / 1000 is exact, above 500 when
\* the double lies above n / 1000, below 500 when it lies below (it is never
\* 500: n * 2^p is a multiple of 8).
DivisionRemainder(n) ==
    ((n % 1000) * Pow2Mod1000(52 - BinaryExponent(n, 0))) % 1000

\* f"{n / 1000:.1f}" in tenths: the double n / 1000 rounded to one decimal,
\* to nearest on the double's exact value, half to even.
Tenths(n) ==
    LET lo == n \div 100
        r  == DivisionRemainder(n)
    IN  IF n % 100 < 50 THEN lo
        ELSE IF n % 100 > 50 THEN lo + 1
        ELSE IF r = 0 THEN (IF lo % 2 = 0 THEN lo ELSE lo + 1)
        ELSE IF r > 500 THEN lo + 1
        ELSE lo

\* An argument of _format_stars: None, or the integer n.
Stars(none, n) == [none |-> none, n |-> n]

\* FormatStars with the test of line 171 as n > 1000
FormatStarsAbove(x) ==
    IF x.none THEN "0"
    ELSE IF x.n > 1000
    THEN IntStr(Tenths(x.n) \div 10) \o "." \o IntStr(Tenths(x.n) % 10) \o "k"
    ELSE IntStr(x.n)

\* _format_stars(n)
FormatStars(x) ==
    IF x.none THEN "0"
    ELSE IF x.n >= 1000
    THEN IntStr(Tenths(x.n) \div 10) \o "." \o IntStr(Tenths(x.n) % 10) \o "k"
    ELSE IntStr(x.n)

\* ------------------------------------------------------------ the request
\* One entry of a parameter mapping: its name and its value as str() gives
\* it, or None.
Param(k, v) == [k |-> k, none |-> FALSE, v |-> v]

\* The parameter mappings built by _cmd_search and _cmd_ai_search.
SearchParams(a) ==
    <<Param("q", a.query), Param("limit", IntStr(a.limit)),
      Param("page", IntStr(a.page)), Param("sortBy", a.sort)>>

AiParams(a) == <<Param("q", a.query)>>

RECURSIVE QuotePlus(_)
\* urllib.parse.quote_plus on the text of a value: a space becomes "+" (the
\* other characters of the enumerated values are sent as they are)
QuotePlus(s) ==
    IF Len(s) = 0 THEN ""
    ELSE (IF Char(s, 1) = " " THEN "+" ELSE Char(s, 1)) \o QuotePlus(SubSeq(s, 2, Len(s)))

\* IsSent without the test of line 124: a None value is sent too
IsSentAll(p) == TRUE

\* line 124: if v is not None
IsSent(p) == ~p.none

RECURSIVE JoinAmp(_)
JoinAmp(ps) ==
    IF Len(ps) = 0 THEN ""
    ELSE ps[1].k \o "=" \o QuotePlus(ps[1].v)
         \o (IF Len(ps) = 1 THEN "" ELSE "&" \o JoinAmp(Tail(ps)))

\* urlencode({k: v for k, v in params.items() if v is not None})
QueryString(params) == JoinAmp(SelectSeq(params, IsSent))

\* main(): the command chosen by the parsed mode, with its endpoint,
\* parameters and error rendering.
Command(a) ==
    IF a.mode = "ai"
    THEN [endpoint |-> "ai-search", params |-> AiParams(a), use_json_errors |-> a.json]
    ELSE [endpoint |-> "search", params |-> SearchParams(a), use_json_errors |-> a.json]

\* What the except clauses of _api_request write for an HTTPError e with the
\* given body: the message, or crashed when body.get / err.get is applied to
\* a value that is not a dict (an AttributeError nothing catches).
HTTPErrorMessage(e) ==
    LET b == e.body IN
    IF ~b.valid THEN [crashed |-> FALSE, msg |-> e.reason]
    ELSE IF b.type # "dict" THEN [crashed |-> TRUE, msg |-> ""]
    ELSE IF ~b.has_error THEN [crashed |-> FALSE, msg |-> e.reason]
    ELSE IF b.error_type # "dict" THEN [crashed |-> TRUE, msg |-> ""]
    ELSE IF b.has_message THEN [crashed |-> FALSE, msg |-> b.message]
    ELSE [crashed |-> FALSE, msg |-> e.reason]

\* An exception nothing catches: the interpreter prints a traceback to
\* standard error and the process ends with status 1.
Traceback(name) == Line("traceback", name)

\* The JSON document json.dump writes to standard output, with its fields.
ErrorDoc(msg, has_code, code) ==
    [kind |-> "json_error", text |-> msg, has_code |-> has_code, code |-> code]

\* ---------------------------------------------------------------- render
RECURSIVE Indexes(_, _, _)
\* the positions i..Len(flags) whose flag equals want, in order
Indexes(flags, i, want) ==
    IF i > Len(flags) THEN <<>>
    ELSE IF flags[i] = want THEN <<i>> \o Indexes(flags, i + 1, want)
    ELSE Indexes(flags, i + 1, want)

\* One rendered result: the kind of rendering and the response entry shown.
Item(kind, i) == [kind |-> kind, text |-> "", idx |-> i]

Items(kind, idxs) == [k \in 1..Len(idxs) |-> Item(kind, idxs[k])]

\* RenderSearch without the return that ends the JSON branch (line 258): the
\* human rendering follows the JSON document.
RenderSearchNoReturn(a, n) ==
    LET all == [k \in 1..n |-> k] IN
    (IF a.json
     THEN <<[kind |-> "result_json", text |-> a.query, mode |-> "keyword",
             total |-> n, withMetadata |-> n, skills |-> all]>>
     ELSE <<>>)
    \o (IF a.plain THEN Items("plain_item", all)
        ELSE <<Line("header", "Keyword search: \"" \o a.query \o "\"")>>
             \o (IF n = 0 THEN <<Line("no_results", "  No results found.")>>
                 ELSE Items("item", all)))

\* _cmd_search after the request: what it prints to standard output for a
\* response carrying n skills.
RenderSearch(a, n) ==
    LET all == [k \in 1..n |-> k] IN
    IF a.json
    THEN <<[kind |-> "result_json", text |-> a.query, mode |-> "keyword",
            total |-> n, withMetadata |-> n, skills |-> all]>>
    ELSE IF a.plain THEN Items("plain_item", all)
    ELSE <<Line("header", "Keyword search: \"" \o a.query \o "\"")>>
         \o (IF n = 0 THEN <<Line("no_results", "  No results found.")>>
             ELSE Items("item", all))

\* WithSkill without its filter: every entry is taken to carry a skill
WithSkillUnfiltered(entries) == [k \in 1..Len(entries) |-> k]

\* line 288: with_skill = [e for e in entries if e.get("skill")]
WithSkill(entries) == Indexes(entries, 1, TRUE)

\* line 289: without_skill = [e for e in entries if not e.get("skill")]
WithoutSkill(entries) == Indexes(entries, 1, FALSE)

\* _cmd_ai_search after the request: what it prints to standard output for a
\* response whose entries carry a skill (TRUE) or not (FALSE).
RenderAi(a, entries) ==
    LET with_skill    == WithSkill(entries)
        without_skill == WithoutSkill(entries)
    IN
    IF a.json
    THEN <<[kind |-> "result_json", text |-> a.query, mode |-> "semantic",
            total |-> Len(entries), withMetadata |-> Len(with_skill),
            skills |-> with_skill]>>
    ELSE IF a.plain THEN Items("plain_item", with_skill)
    ELSE <<Line("header", "AI search: \"" \o a.query \o "\"")>>
         \o (IF Len(entries) = 0 THEN <<Line("no_results", "  No results found.")>>
             ELSE Items("item", with_skill)
                  \o (IF Len(without_skill) > 0
                      THEN <<Line("summary", IntStr(Len(without_skill))
                                \o " additional results without full metadata, skipped")>>
                      ELSE <<>>))

\* ------------------------------------------------------------------ inputs
RECURSIVE SeqsUpTo(_, _)
\* every sequence over S of length at most n
SeqsUpTo(S, n) ==
    IF n = 0 THEN {<<>>}
    ELSE LET shorter == SeqsUpTo(S, n - 1)
         IN  shorter \cup {Append(q, x) : q \in {t \in shorter : Len(t) = n - 1}, x \in S}

\* Command lines of whole invocations.
ArgvSamples ==
    {<<>>, <<"--help">>, <<"--version">>, <<"--bogus", "q">>,
     <<"--json", "--plain", "q">>, <<"--ai", "--limit", "5", "q">>,
     <<"q">>, <<"--json", "q">>, <<"--plain", "q">>,
     <<"--ai", "q">>, <<"-a", "-j", "q">>, <<"--ai", "--plain", "q">>,
     <<"--limit", "5", "--page", "2", "--sort", "recent", "react", "testing">>,
     <<"--page", "0", "q">>}

\* Process environments: the key absent, empty or set; another variable
\* absent or set.
Environs ==
    {<<>>} \cup {(KEY_NAME :> k) : k \in {"", "from-env"}}
    \cup {("OTHER_VAR" :> "pre")}
    \cup {(KEY_NAME :> k) @@ ("OTHER_VAR" :> "pre") : k \in {"", "from-env"}}

DotLines ==
    {"SKILLSMP_API_KEY=ok\n", "export SKILLSMP_API_KEY='quoted-key'\n",
     "OTHER_VAR=leak\n", "# SKILLSMP_API_KEY=commented\n", "\n"}

\* ~/.env: missing, or a file of at most MaxLines lines.
DotFiles ==
    {[exists |-> FALSE, lines |-> <<>>]}
    \cup {[exists |-> TRUE, lines |-> l] : l \in SeqsUpTo(DotLines, MaxLines)}

ErrorBodies ==
    {[valid |-> FALSE, type |-> "", has_error |-> FALSE, error_type |-> "",
      has_message |-> FALSE, message |-> ""],
     [valid |-> TRUE, type |-> "list", has_error |-> FALSE, error_type |-> "",
      has_message |-> FALSE, message |-> ""],
     [valid |-> TRUE, type |-> "dict", has_error |-> FALSE, error_type |-> "",
      has_message |-> FALSE, message |-> ""],
     [valid |-> TRUE, type |-> "dict", has_error |-> TRUE, error_type |-> "str",
      has_message |-> FALSE, message |-> ""],
     [valid |-> TRUE, type |-> "dict", has_error |-> TRUE, error_type |-> "dict",
      has_message |-> FALSE, message |-> ""],
     [valid |-> TRUE, type |-> "dict", has_error |-> TRUE, error_type |-> "dict",
      has_message |-> TRUE, message |-> "bad key"]}

\* What urlopen can do: return a 2xx response, raise HTTPError for another
\* status, or raise URLError for a transport failure.
Outcomes(endpoint) ==
    {[kind |-> "ok", valid |-> FALSE, type |-> "", skills |-> 0, entries |-> <<>>],
     [kind |-> "ok", valid |-> TRUE, type |-> "list", skills |-> 0, entries |-> <<>>]}
    \cup (IF endpoint = "search"
          THEN {[kind |-> "ok", valid |-> TRUE, type |-> "dict", skills |-> n,
                 entries |-> <<>>] : n \in 0..MaxEntries}
          ELSE {[kind |-> "ok", valid |-> TRUE, type |-> "dict", skills |-> 0,
                 entries |-> e] : e \in SeqsUpTo(BOOLEAN, MaxEntries)})
    \cup {[kind |-> "http_error", code |-> c.code, reason |-> c.reason, body |-> b] :
            c \in {[code |-> 403, reason |-> "Forbidden"],
                   [code |-> 500, reason |-> "Internal"]},
            b \in ErrorBodies}
    \cup {[kind |-> "url_error", reason |-> r] : r \in {"Connection refused", "timeout"}}

\* ------------------------------------------------------------------- state
VARIABLES
    call,       \* the function entered and, for _format_stars, its argument
    returned,   \* what the function entered returned to its caller
    argv,       \* sys.argv[1:]
    environ,    \* os.environ
    dotfile,    \* ~/.env
    isTTY,      \* sys.stderr.isatty()
    pc,         \* where the invocation is: main, cmd, api_key, send, recv, render, exit
    args,       \* what _parse_args produced
    request,    \* the command main dispatched to: endpoint, params, use_json_errors
    api_key,    \* the key _get_api_key returned
    opened,     \* whether ~/.env has been opened
    sent,       \* the requests handed to urlopen, in order
    response,   \* what urlopen did
    stdout,     \* lines written to standard output
    stderr,     \* lines written to standard error
    exitCode    \* the exit status, once pc = "exit"

vars == <<call, returned, argv, environ, dotfile, isTTY, pc, args, request, api_key, opened,
          sent, response, stdout, stderr, exitCode>>

NoRequest == [endpoint |-> "", params |-> <<>>, use_json_errors |-> FALSE]

NoResponse == [kind |-> "none"]

\* The entry: main(), or a direct call of one of the module's functions.
Entry(fn) == [fn |-> fn, stars |-> Stars(TRUE, 0)]

NoReturn == [kind |-> "none"]

\* The state of a fresh process, for a given command line and surroundings.
Start(a, e, f, t) ==
    /\ call = Entry("main")
    /\ returned = NoReturn
    /\ argv = a
    /\ environ = e
    /\ dotfile = f
    /\ isTTY = t
    /\ pc = "main"
    /\ args = ParseExit(ScanStart, FALSE)
    /\ request = NoRequest
    /\ api_key = ""
    /\ opened = FALSE
    /\ sent = <<>>
    /\ response = NoResponse
    /\ stdout = <<>>
    /\ stderr = <<>>
    /\ exitCode = 0

Init ==
    \E a \in ArgvSamples, e \in Environs, f \in DotFiles, t \in BOOLEAN :
        Start(a, e, f, t)

\* raise SystemExit(code), or an exception nothing catches
Exit(code) == pc' = "exit" /\ exitCode' = code

\* main(), line 434: args = _parse_args(sys.argv[1:])
MainParse ==
    /\ pc = "main"
    /\ LET r == ParseArgs(argv) IN
         /\ args' = r
         /\ stdout' = stdout \o r.out
         /\ stderr' = stderr \o r.err
         /\ IF r.exited THEN Exit(r.code)
            ELSE pc' = "cmd" /\ UNCHANGED exitCode
    /\ UNCHANGED <<call, returned>>
    /\ UNCHANGED <<argv, environ, dotfile, isTTY, request, api_key, opened,
                   sent, response>>

\* main(), lines 436-450, into _cmd_search / _cmd_ai_search up to their call
\* of _api_request.
MainDispatch ==
    /\ pc = "cmd"
    /\ request' = Command(args)
    /\ pc' = "api_key"
    /\ UNCHANGED <<call, returned>>
    /\ UNCHANGED <<argv, environ, dotfile, isTTY, args, api_key, opened, sent,
                   response, stdout, stderr, exitCode>>

\* _api_request, line 123: api_key = _get_api_key()
ApiGetKey ==
    /\ pc = "api_key"
    /\ LET r == GetApiKey(environ, dotfile) IN
         /\ environ' = r.environ
         /\ api_key' = r.key
         /\ opened' = (opened \/ r.opened)
         /\ stderr' = stderr \o r.err
         /\ IF r.exited THEN Exit(r.code)
            ELSE pc' = "send" /\ UNCHANGED exitCode
    /\ UNCHANGED <<call, returned>>
    /\ UNCHANGED <<argv, dotfile, isTTY, args, request, sent, response, stdout>>

\* _api_request, lines 124-134: the request is built and urlopen blocks until
\* the network has answered, failed or timed out.
ApiSend ==
    /\ pc = "send"
    /\ sent' = Append(sent, [endpoint |-> request.endpoint,
                             qs |-> QueryString(request.params),
                             authorization |-> "Bearer " \o api_key])
    /\ \E o \in Outcomes(request.endpoint) : response' = o
    /\ pc' = "recv"
    /\ UNCHANGED <<call, returned>>
    /\ UNCHANGED <<argv, environ, dotfile, isTTY, args, request, api_key, opened,
                   stdout, stderr, exitCode>>

\* _api_request, line 135, and the command's rendering of the decoded
\* response: json.loads raises on a body that is not JSON and .get on a
\* document that is not an object, and nothing catches either. A direct
\* caller of _api_request gets the decoded document back.
ApiReturn ==
    /\ pc = "recv"
    /\ response.kind = "ok"
    /\ IF ~response.valid
       THEN /\ stderr' = Append(stderr, Traceback("json.JSONDecodeError"))
            /\ Exit(1)
            /\ UNCHANGED <<stdout, returned>>
       ELSE IF call.fn = "_api_request"
       THEN /\ returned' = response
            /\ pc' = "returned"
            /\ UNCHANGED <<stdout, stderr, exitCode>>
       ELSE IF response.type # "dict"
       THEN /\ stderr' = Append(stderr, Traceback("AttributeError"))
            /\ Exit(1)
            /\ UNCHANGED <<stdout, returned>>
       ELSE /\ stdout' = stdout \o (IF request.endpoint = "ai-search"
                                    THEN RenderAi(args, response.entries)
                                    ELSE RenderSearch(args, response.skills))
            /\ Exit(0)
            /\ UNCHANGED <<stderr, returned>>
    /\ UNCHANGED call
    /\ UNCHANGED <<argv, environ, dotfile, isTTY, args, request, api_key, opened,
                   sent, response>>

\* _api_request, lines 136-149: except urllib.error.HTTPError
ApiHTTPError ==
    /\ pc = "recv"
    /\ response.kind = "http_error"
    /\ LET m == HTTPErrorMessage(response) IN
         IF m.crashed
         THEN /\ stderr' = Append(stderr, Traceback("AttributeError"))
              /\ UNCHANGED stdout
         ELSE IF request.use_json_errors
         THEN /\ stdout' = Append(stdout, ErrorDoc(m.msg, TRUE, response.code))
              /\ UNCHANGED stderr
         ELSE /\ stderr' = Append(stderr, Line("api_error",
                     "skillsmp: API error (" \o IntStr(response.code) \o "): " \o m.msg))
              /\ UNCHANGED stdout
    /\ Exit(1)
    /\ UNCHANGED <<call, returned>>
    /\ UNCHANGED <<argv, environ, dotfile, isTTY, args, request, api_key, opened,
                   sent, response>>

\* _api_request, lines 150-156: except urllib.error.URLError
ApiURLError ==
    /\ pc = "recv"
    /\ response.kind = "url_error"
    /\ IF request.use_json_errors
       THEN /\ stdout' = Append(stdout, ErrorDoc(response.reason, FALSE, 0))
            /\ UNCHANGED stderr
       ELSE /\ stderr' = Append(stderr, Line("network_error",
                   "skillsmp: network error: " \o response.reason))
            /\ UNCHANGED stdout
    /\ Exit(1)
    /\ UNCHANGED <<call, returned>>
    /\ UNCHANGED <<argv, environ, dotfile, isTTY, args, request, api_key, opened,
                   sent, response>>

Next ==
    \/ MainParse
    \/ MainDispatch
    \/ ApiGetKey
    \/ ApiSend
    \/ ApiReturn
    \/ ApiHTTPError
    \/ ApiURLError

\* One invocation of the program.
Spec == Init /\ [][Next]_vars

\* --------------------------------------------- functions called directly
\* The state in which a caller other than main has entered function c.fn at
\* position where, with request req, in surroundings e and f.
Called(c, where, req, e, f) ==
    /\ call = c
    /\ returned = NoReturn
    /\ argv = <<>>
    /\ environ = e
    /\ dotfile = f
    /\ isTTY = FALSE
    /\ pc = where
    /\ args = ParseExit(ScanStart, FALSE)
    /\ request = req
    /\ api_key = ""
    /\ opened = FALSE
    /\ sent = <<>>
    /\ response = NoResponse
    /\ stdout = <<>>
    /\ stderr = <<>>
    /\ exitCode = 0

\* A parameter whose value is None.
NoneParam(k) == [k |-> k, none |-> TRUE, v |-> ""]

\* params dictionaries handed to _api_request by a direct caller.
DirectParams ==
    {<<>>,
     <<Param("q", "x")>>,
     <<Param("q", "x"), NoneParam("page")>>,
     <<NoneParam("limit")>>,
     <<Param("q", "a b"), Param("limit", "5"), NoneParam("page"), NoneParam("sortBy")>>,
     <<NoneParam("q"), Param("sortBy", "recent")>>}

DirectRequests ==
    {[endpoint |-> ep, params |-> ps, use_json_errors |-> j] :
        ep \in {"search", "ai-search"}, ps \in DirectParams, j \in BOOLEAN}

\* main(), or _api_request(endpoint, params) called on its own.
InitDispatch ==
    \/ Init
    \/ \E r \in DirectRequests, e \in Environs :
          Called(Entry("_api_request"), "api_key", r, e,
                 [exists |-> FALSE, lines |-> <<>>])

SpecDispatch == InitDispatch /\ [][Next]_vars

\* The arguments _format_stars is applied to.
StarCounts == {Stars(TRUE, 0)} \cup {Stars(FALSE, n) : n \in 0..MaxStars}

InitStars ==
    \E x \in StarCounts :
        Called([fn |-> "_format_stars", stars |-> x], "format_stars", NoRequest,
               <<>>, [exists |-> FALSE, lines |-> <<>>])

\* _format_stars(n) returns its string.
FormatStarsCall ==
    /\ pc = "format_stars"
    /\ returned' = [kind |-> "str", text |-> FormatStars(call.stars)]
    /\ pc' = "returned"
    /\ UNCHANGED <<call, argv, environ, dotfile, isTTY, args, request, api_key,
                   opened, sent, response, stdout, stderr, exitCode>>

NextStars == FormatStarsCall

SpecStars == InitStars /\ [][NextStars]_vars

\* ------------------------------------------- the argument parser on its own
Tokens ==
    {"--help", "-a", "-j", "--plain", "-n", "-p", "-s", "--", "--bogus",
     "q", "5", "0", "recent"}

\* Command lines spelled with the other name of each flag, and values the
\* token set does not hold.
AliasArgvs ==
    {<<"-h">>, <<"--version">>, <<"-j", "--plain", "--version">>,
     <<"--json", "--plain", "q">>, <<"--plain", "--json", "q">>,
     <<"--json", "--plain", "-h">>, <<"--ai", "--limit", "5", "q">>,
     <<"--ai", "--page", "2", "q">>, <<"--ai", "--sort", "recent", "q">>,
     <<"--ai", "--limit", "abc", "q">>, <<"--page", "-3", "q">>,
     <<"--page", " 7 ", "q">>, <<"--limit", "+5", "q">>, <<"--limit", "5x", "q">>,
     <<"--limit", "", "q">>, <<"--limit", "1_0", "q">>, <<"--limit", "_5", "q">>, <<"--sort", "stars", "q">>, <<"--sort", "name", "q">>,
     <<"hello", "--ai", "--json">>, <<"--", "--ai", "-j">>,
     <<"--limit", "--limit", "5", "q">>, <<"react", "testing", "library">>,
     <<"-j", "--plain", "-n", "0", "q">>, <<"-n", "101", "-p", "x", "q">>,
     <<"-n", "5", "-p", "x", "-s", "name", "q">>, <<"-s", "name", "-p", "x", "q">>,
     <<"--json", "--plain", "--limit", "abc", "--page", "x", "--sort", "name",
       "--ai", "q">>,
     <<"-j", "--plain", "-n", "abc">>, <<"-j", "--plain", "-n", "0", "--bogus", "q">>}

\* [--limit, L, q] and [-n, L, q] for every integer L near the accepted range
LimitArgvs ==
    {<<f, IntStr(l), "q">> : f \in {"-n", "--limit"}, l \in (0 - MaxLimit)..MaxLimit}

InitParse ==
    \E a \in SeqsUpTo(Tokens, MaxArgs) \cup AliasArgvs \cup LimitArgvs :
        Start(a, (KEY_NAME :> "from-env"), [exists |-> FALSE, lines |-> <<>>], FALSE)

NextParse == MainParse

\* _parse_args applied to a command line.
SpecParse == InitParse /\ [][NextParse]_vars

\* ================================================================= claims
\* The invocation has ended in _get_api_key without a key.
KeyUnresolved == pc = "exit" /\ ~args.exited /\ api_key = ""

\* C1: when the API key is unresolved, credential resolution prints a message
\* to standard error and ends the invocation with exit status 2.
C1_MissingKeyExits2 ==
    KeyUnresolved =>
        /\ exitCode = 2
        /\ \E i \in 1..Len(stderr) : stderr[i].kind = "config_error"

\* C2: a step of the invocation adds no variable to the process environment
\* other than SKILLSMP_API_KEY, and changes no variable that was set.
C2_OnlyKeyImported ==
    [][/\ \A n \in DOMAIN environ' : n \in DOMAIN environ \/ n = KEY_NAME
       /\ \A n \in DOMAIN environ : n \in DOMAIN environ' /\ environ'[n] = environ[n]]_vars

\* The scan of _parse_args has set both the json and the plain flag.
JsonAndPlainGiven == pc # "main" /\ args.json /\ args.plain

\* C3 as stated: whenever the json flag and --plain are both given as flags,
\* parsing ends with exit status 2 and returns nothing.
C3_JsonPlainAlwaysExit2 ==
    JsonAndPlainGiven => args.exited /\ args.code = 2

HelpFlags == {"-h", "--help", "--version"}

\* C3 as amended: whenever the json flag and --plain are both given as flags,
\* parsing returns nothing; it ends with exit status 2, unless the argument
\* list also holds a help or version flag, and then it may end with status 0
\* after printing the help or the version and nothing else.
C3_JsonPlainNeverParses ==
    JsonAndPlainGiven =>
        /\ args.exited
        /\ \/ args.code = 2
           \/ /\ args.code = 0
              /\ \E i \in 1..Len(argv) : argv[i] \in HelpFlags
              /\ Len(stdout) = 1 /\ stdout[1].kind \in {"full_help", "version"}
              /\ stderr = <<>>

\* --json --plain q: the mutually-exclusive usage error.
C3_Witness ==
    /\ JsonAndPlainGiven
    /\ args.exited /\ args.code = 2
    /\ stderr = <<Line("usage", "skillsmp: --json and --plain are mutually exclusive"),
                  Line("try_help", "Try \"skillsmp --help\" for usage.")>>

\* The scan has set the ai flag and at least one of limit, page, sort.
AiAndPagingGiven ==
    /\ pc # "main"
    /\ args.mode = "ai"
    /\ (args.limit_raw.some \/ args.page_raw.some \/ args.sort_raw.some)

MismatchLines ==
    <<Line("usage", "skillsmp: --limit, --page, --sort do not apply to --ai search"),
      Line("try_help", "Try \"skillsmp --help\" for usage.")>>

\* C4 as stated: whenever the ai flag is given with one of --limit, --page,
\* --sort, parsing ends with exit status 2 and the mode-mismatch message.
C4_AiPagingAlwaysMismatch ==
    AiAndPagingGiven => args.exited /\ args.code = 2 /\ stderr = MismatchLines

\* No earlier check of _parse_args applies: the scan ran to its end, there is
\* a query, json and plain are not both set, the limit given is an integer in
\* 1..100, the page given is an integer, the sort given is stars or recent.
EarlierChecksPass ==
    /\ args.scan_done
    /\ args.query_parts # <<>>
    /\ ~(args.json /\ args.plain)
    /\ args.limit_raw.some =>
          /\ IntParse(args.limit_raw.v).ok
          /\ IntParse(args.limit_raw.v).v \in 1..100
    /\ args.page_raw.some => IntParse(args.page_raw.v).ok
    /\ args.sort_raw.some => args.sort_raw.v \in {"stars", "recent"}

\* C4 as amended: whenever the ai flag is given with one of --limit, --page,
\* --sort, parsing returns nothing; when no earlier check applies it ends with
\* exit status 2 and the mode-mismatch message, and otherwise with the exit
\* (help, version or an earlier usage error) that came first.
C4_AiPagingNeverParses ==
    AiAndPagingGiven =>
        /\ args.exited
        /\ EarlierChecksPass => args.code = 2 /\ stderr = MismatchLines
        /\ ~EarlierChecksPass => stderr # MismatchLines

\* --ai --sort recent q: the mode-mismatch usage error.
C4_Witness ==
    /\ AiAndPagingGiven
    /\ args.sort_raw.some /\ ~args.limit_raw.some /\ ~args.page_raw.some
    /\ EarlierChecksPass
    /\ args.exited /\ args.code = 2 /\ stderr = MismatchLines

\* C5: every ParsedArguments returned has page >= 1.
C5_PageAtLeastOne ==
    (pc # "main" /\ ~args.exited) => args.page >= 1
LimitFlags == {"-n", "--limit"}

\* Values that are not the text of an integer.
NonNumeric == {"q", "recent", "abc", "5x", "", "--", "--bogus", "--help", "-a"}

\* C6: [--limit, L, q] (or -n) returns limit = L for every integer L in
\* 1..100 and ends with exit status 2, returning nothing, for every other
\* integer L and for a value that is not a number; a command line without
\* --limit that parses returns limit = 10.
C6_LimitRange ==
    pc # "main" =>
        /\ (Len(argv) = 3 /\ argv[1] \in LimitFlags /\ argv[3] = "q") =>
              /\ \A l \in (0 - MaxLimit)..MaxLimit :
                    argv[2] = IntStr(l) =>
                        IF 1 <= l /\ l <= 100
                        THEN ~args.exited /\ args.limit = l
                        ELSE args.exited /\ args.code = 2
              /\ argv[2] \in NonNumeric => args.exited /\ args.code = 2
        /\ ((\A i \in 1..Len(argv) : argv[i] \notin LimitFlags) /\ ~args.exited) =>
              args.limit = 10

\* --limit 100 q is accepted with limit = 100.
C6_Witness ==
    /\ pc # "main"
    /\ argv = <<"--limit", "100", "q">>
    /\ ~args.exited /\ args.limit = 100

ValueFlags == {"-n", "--limit", "-p", "--page", "-s", "--sort"}

\* Position k of the command line is where the scan halts: the token is "--"
\* or does not start with "-", and every token before it starts with "-"
\* (and is not "--") or follows a flag that takes a value.
HaltsAt(k) ==
    /\ k \in 1..Len(argv)
    /\ argv[k] = "--" \/ ~StartsWith(argv[k], "-")
    /\ \A j \in 1..(k - 1) :
          \/ StartsWith(argv[j], "-") /\ argv[j] # "--"
          \/ j > 1 /\ argv[j - 1] \in ValueFlags

SameSettings(a, b) ==
    /\ a.exited = b.exited
    /\ a.mode = b.mode /\ a.json = b.json /\ a.plain = b.plain
    /\ a.limit = b.limit /\ a.page = b.page /\ a.sort = b.sort

\* C7: a command line that parses halts the scan at some position k; from the
\* first non-flag token on (after a "--": from the token behind it on) every
\* token is query text, joined by single spaces in order, and mode, output
\* format, limit, page and sort are what the command line cut after the
\* first query token gives.
C7_ScanStopsAtQuery ==
    (pc # "main" /\ ~args.exited) =>
        \E k \in 1..Len(argv) :
            /\ HaltsAt(k)
            /\ LET first == IF argv[k] = "--" THEN k + 1 ELSE k IN
                 /\ first <= Len(argv)
                 /\ args.query = Join(SubSeq(argv, first, Len(argv)))
                 /\ SameSettings(args, ParseArgs(SubSeq(argv, 1, first)))

\* q -a -j (or -- -a -j): the flags behind the first query token are text.
C7_Witness ==
    /\ pc # "main" /\ ~args.exited
    /\ args.mode = "search" /\ ~args.json
    /\ Len(argv) = 3 /\ argv[2] = "-a" /\ argv[3] = "-j"
    /\ args.query = argv[1] \o " -a -j"

\* The request has failed with a non-2xx status or a transport failure and
\* the invocation has ended.
RequestFailed == pc = "exit" /\ response.kind \in {"http_error", "url_error"}

ResultKinds == {"result_json", "plain_item", "header", "item", "no_results", "summary"}

NoResultOutput == \A i \in 1..Len(stdout) : stdout[i].kind \notin ResultKinds

\* C8: a failed request is rendered exactly once and in one place: one JSON
\* error object on standard output and nothing on standard error when JSON
\* errors were requested, otherwise one line on standard error and nothing on
\* standard output; the exit status is 1 and no result is written.
C8_ErrorRenderedOnce ==
    RequestFailed =>
        /\ exitCode = 1
        /\ NoResultOutput
        /\ IF request.use_json_errors
           THEN /\ Len(stdout) = 1 /\ stdout[1].kind = "json_error"
                /\ stderr = <<>>
           ELSE /\ Len(stderr) = 1 /\ stderr[1].kind \in {"api_error", "network_error"}
                /\ stdout = <<>>

\* The message the body of a non-2xx response calls for: its error message
\* field when it is JSON with one, the status phrase in every other case.
ExpectedMessage(r) ==
    IF /\ r.body.valid /\ r.body.type = "dict" /\ r.body.has_error
       /\ r.body.error_type = "dict" /\ r.body.has_message
    THEN r.body.message
    ELSE r.reason

\* C9: every non-2xx response ends as an API error carrying the status code
\* and the message of the body's error message field, or the status phrase
\* when the body is not JSON or is JSON of any shape without that field.
C9_ApiErrorMessage ==
    (pc = "exit" /\ response.kind = "http_error") =>
        IF request.use_json_errors
        THEN stdout = <<ErrorDoc(ExpectedMessage(response), TRUE, response.code)>>
        ELSE stderr = <<Line("api_error", "skillsmp: API error ("
                              \o IntStr(response.code) \o "): "
                              \o ExpectedMessage(response))>>

\* C10: an invocation hands at most one request to the network, none when
\* parsing ended in help, version or a usage error, and none without a key:
\* a request that was sent carries the key resolved before it.
C10_AtMostOneCall ==
    /\ Len(sent) <= 1
    /\ (pc # "main" /\ args.exited) => sent = <<>>
    /\ KeyUnresolved => sent = <<>>
    /\ pc \in {"main", "cmd", "api_key"} => sent = <<>>
    /\ sent # <<>> => api_key # "" /\ sent[1].authorization = "Bearer " \o api_key

\* An invocation that sent its one request, with the key taken from ~/.env.
C10_Witness ==
    /\ pc = "exit" /\ Len(sent) = 1
    /\ opened /\ api_key = "ok"

\* The invocation parsed its command line, ran in JSON output mode and ended.
JsonModeEnded == pc = "exit" /\ ~args.exited /\ args.json

JsonDocKinds == {"result_json", "json_error"}

\* C11: in JSON output mode, whatever the outcome (a response, an API error,
\* a network error, a missing credential), standard output at the end holds
\* one complete JSON document or nothing: never a result and an error
\* document together, never a document twice, never other text.
C11_JsonOneDocumentOrNothing ==
    JsonModeEnded =>
        \/ stdout = <<>>
        \/ Len(stdout) = 1 /\ stdout[1].kind \in JsonDocKinds

\* --json q answered with skills: the one result document.
C11_Witness ==
    /\ JsonModeEnded
    /\ response.kind = "ok" /\ request.endpoint = "search" /\ response.skills > 0
    /\ Len(stdout) = 1 /\ stdout[1].kind = "result_json"

\* An AI search has rendered a decoded response.
AiRendered ==
    /\ pc = "exit" /\ exitCode = 0 /\ ~args.exited
    /\ request.endpoint = "ai-search" /\ response.kind = "ok"

IsItemLine(l) == l.kind \in {"item", "plain_item"}

\* The response entries shown as items, in the order written: the skills list
\* of the JSON document, or the item lines of the plain and human renderings.
ShownEntries ==
    IF args.json THEN stdout[1].skills
    ELSE LET items == SelectSeq(stdout, IsItemLine)
         IN  [k \in 1..Len(items) |-> items[k].idx]

\* shown lists exactly the positions of entries that carry a skill, in order.
ExactlyWithSkill(shown, entries) ==
    /\ \A k \in 1..Len(shown) : shown[k] \in 1..Len(entries) /\ entries[shown[k]]
    /\ \A k \in 1..(Len(shown) - 1) : shown[k] < shown[k + 1]
    /\ \A i \in 1..Len(entries) : entries[i] => \E k \in 1..Len(shown) : shown[k] = i

\* C12: for every AI-search response, the items rendered (json, plain and
\* human) are exactly the entries with a skill, in response order; the JSON
\* skills list is as long as withMetadata; the entries without a skill are
\* reported by one trailing "without full metadata" line carrying their count,
\* in human mode only and only when there are some.
C12_AiEntriesWithoutSkill ==
    AiRendered =>
        LET e       == response.entries
            missing == Cardinality({i \in 1..Len(e) : ~e[i]})
            summary == {i \in 1..Len(stdout) : stdout[i].kind = "summary"}
        IN  /\ ExactlyWithSkill(ShownEntries, e)
            /\ args.json =>
                  /\ Len(stdout) = 1
                  /\ stdout[1].withMetadata = Len(stdout[1].skills)
                  /\ stdout[1].total = Len(e)
            /\ IF ~args.json /\ ~args.plain /\ missing > 0
               THEN /\ summary = {Len(stdout)}
                    /\ stdout[Len(stdout)].text = IntStr(missing)
                          \o " additional results without full metadata, skipped"
               ELSE summary = {}

\* --ai q in human mode, answered with one entry with a skill and one without.
C12_Witness ==
    /\ AiRendered /\ ~args.json /\ ~args.plain
    /\ response.entries = <<TRUE, FALSE>>
    /\ Len(stdout) = 3 /\ stdout[2].kind = "item" /\ stdout[2].idx = 1
    /\ stdout[3].kind = "summary"

\* sub occurs in s (Python's `sub in s`).
Contains(s, sub) ==
    \E i \in 1..(Len(s) - Len(sub) + 1) : SubSeq(s, i, i + Len(sub) - 1) = sub

\* Some line written to standard error contains the text.
StderrHas(text) == \E i \in 1..Len(stderr) : Contains(stderr[i].text, text)

\* A keyword search was answered with an empty list of skills and rendered.
KeywordNoResults ==
    /\ pc = "exit" /\ exitCode = 0 /\ ~args.exited
    /\ request.endpoint = "search" /\ response.kind = "ok"
    /\ response.skills = 0

\* C13: in human output mode, after a keyword search that returned no
\* results, standard error carries the "Tip:" hint if and only if standard
\* error is an interactive terminal; the hint is never written when standard
\* error is not interactive, and never in JSON mode.
C13_NoResultsHintOnTTY ==
    /\ (KeywordNoResults /\ ~args.json /\ ~args.plain) => (StderrHas("Tip:") <=> isTTY)
    /\ ~isTTY => ~StderrHas("Tip:")
    /\ (~args.exited /\ args.json) => ~StderrHas("Tip:")

\* An AI search in human output mode has sent its request.
AiHumanRequested ==
    /\ ~args.exited /\ args.mode = "ai" /\ ~args.json /\ ~args.plain
    /\ pc \in {"recv", "exit"} /\ Len(sent) > 0

\* C14: an AI search in human output mode with an interactive standard error
\* has written "Searching (AI)..." to standard error by the time its request
\* is under way; in JSON mode, or when standard error is not interactive, no
\* progress text is ever written.
C14_AiProgressOnTTY ==
    /\ (AiHumanRequested /\ isTTY) => StderrHas("Searching (AI)...")
    /\ (~isTTY \/ (~args.exited /\ args.json)) => ~StderrHas("Searching")

\* C15: when SKILLSMP_API_KEY is set and non-empty in the environment,
\* credential resolution returns exactly that value without opening the
\* dotfile; the dotfile is opened only by credential resolution and only
\* after the environment lookup came back empty; and no variable the
\* environment already holds is replaced or removed by the dotfile.
C15_EnvironmentBeforeDotfile ==
    [][/\ (pc = "api_key" /\ EnvGet(environ, KEY_NAME) # "") =>
              /\ api_key' = environ[KEY_NAME]
              /\ pc' = "send"
              /\ opened' = opened
              /\ environ' = environ
       /\ (opened' /\ ~opened) =>
              pc = "api_key" /\ EnvGet(environ, KEY_NAME) = ""
       /\ \A k \in DOMAIN environ :
              k \in DOMAIN environ' /\ environ'[k] = environ[k]
      ]_vars

\* The key came from the environment although ~/.env defines another one,
\* and the file was not opened.
C15_Witness ==
    /\ pc = "send" /\ api_key = "from-env" /\ ~opened
    /\ dotfile.exists
    /\ \E i \in 1..Len(dotfile.lines) : dotfile.lines[i] = "SKILLSMP_API_KEY=ok\n"

\* _format_stars has returned its string for a count.
StarsFormatted == pc = "returned" /\ call.fn = "_format_stars" /\ ~call.stars.none

\* s is the plain decimal numeral of n: digits only, no leading zero.
IsDecimalOf(s, n) ==
    /\ Len(s) > 0
    /\ \A i \in 1..Len(s) : Char(s, i) \in Digits
    /\ Len(s) > 1 => Char(s, 1) # "0"
    /\ DigitsValue(s, 0) = n

\* s is n in thousands with one decimal and the suffix k: "<int>.<digit>k",
\* the number written being a tenth nearest to n / 1000.
IsThousandsOf(s, n) ==
    /\ Len(s) >= 4
    /\ Char(s, Len(s)) = "k"
    /\ Char(s, Len(s) - 2) = "."
    /\ Char(s, Len(s) - 1) \in Digits
    /\ LET whole == SubSeq(s, 1, Len(s) - 3)
           t     == 10 * DigitsValue(whole, 0) + DigitVal(Char(s, Len(s) - 1))
       IN  /\ \A i \in 1..Len(whole) : Char(whole, i) \in Digits
           /\ Len(whole) > 1 => Char(whole, 1) # "0"
           /\ 100 * t - n <= 50
           /\ n - 100 * t <= 50

\* The examples: None -> "0", 42 -> "42", 1500 -> "1.5k".
StarExamples ==
    /\ (pc = "returned" /\ call.fn = "_format_stars" /\ call.stars.none)
           => returned.text = "0"
    /\ (StarsFormatted /\ call.stars.n = 42) => returned.text = "42"
    /\ (StarsFormatted /\ call.stars.n = 1500) => returned.text = "1.5k"

\* C16 as stated: an absent count formats as "0", every count not above 1000
\* as its plain decimal integer, every count above 1000 as thousands with one
\* decimal and a "k" suffix.
C16_PlainUpTo1000 ==
    /\ StarExamples
    /\ (StarsFormatted /\ call.stars.n <= 1000)
           => IsDecimalOf(returned.text, call.stars.n)
    /\ (StarsFormatted /\ call.stars.n > 1000)
           => IsThousandsOf(returned.text, call.stars.n)

\* C16, amended: an absent count formats as "0", every count below 1000 as
\* its plain decimal integer, every count of 1000 or more as thousands with
\* one decimal and a "k" suffix.
C16_PlainBelow1000 ==
    /\ StarExamples
    /\ (StarsFormatted /\ call.stars.n < 1000)
           => IsDecimalOf(returned.text, call.stars.n)
    /\ (StarsFormatted /\ call.stars.n >= 1000)
           => IsThousandsOf(returned.text, call.stars.n)

\* A count of exactly 1000 has been formatted, as "1.0k".
C16_Witness ==
    StarsFormatted /\ call.stars.n = 1000 /\ returned.text = "1.0k"

\* The validation rules of _parse_args, read off the flags the scan collected.
RuleA == args.json /\ args.plain

RuleB ==
    /\ args.limit_raw.some
    /\ \/ ~IntParse(args.limit_raw.v).ok
       \/ IntParse(args.limit_raw.v).v \notin 1..100

RuleC == args.page_raw.some /\ ~IntParse(args.page_raw.v).ok

RuleD == args.sort_raw.some /\ args.sort_raw.v \notin {"stars", "recent"}

RuleE ==
    /\ args.mode = "ai"
    /\ args.limit_raw.some \/ args.page_raw.some \/ args.sort_raw.some

\* Rules (a) to (e) in their fixed order, each with whether it is violated
\* and how its usage message begins.
Rules ==
    <<[violated |-> RuleA, msg |-> "skillsmp: --json and --plain are mutually exclusive"],
      [violated |-> RuleB, msg |-> "skillsmp: --limit must be "],
      [violated |-> RuleC, msg |-> "skillsmp: --page must be a number"],
      [violated |-> RuleD, msg |-> "skillsmp: --sort must be "],
      [violated |-> RuleE, msg |-> "skillsmp: --limit, --page, --sort do not apply"]>>

ViolatedRules == {k \in 1..Len(Rules) : Rules[k].violated}

\* The scan ran to its end and the flags it collected violate several rules.
SeveralViolated ==
    pc = "exit" /\ args.scan_done /\ Cardinality(ViolatedRules) > 1

\* Standard error holds one usage error: a message line beginning with msg,
\* then the fixed line, and the exit status is 2.
OneUsageError(msg) ==
    /\ exitCode = 2
    /\ stdout = <<>>
    /\ Len(stderr) = 2
    /\ stderr[1].kind = "usage" /\ StartsWith(stderr[1].text, msg)
    /\ stderr[2].text = "Try \"skillsmp --help\" for usage."

EarliestReported ==
    \E k \in ViolatedRules :
        /\ \A j \in ViolatedRules : k <= j
        /\ OneUsageError(Rules[k].msg)

\* The scan itself ended in a usage error.
ScanError == pc = "exit" /\ ~args.scan_done /\ exitCode = 2

ScanErrorReported ==
    \/ OneUsageError("skillsmp: unknown flag: -")
    \/ /\ OneUsageError("skillsmp: flag -")
       /\ Contains(stderr[1].text, " requires a value")

\* C17 as stated: when an argument list violates more than one of the rules
\* (a) to (e), exactly one usage error is reported, the one of the earliest
\* violated rule; scan-time errors come before any of them; every such usage
\* error is a message line and the fixed "Try" line on standard error with
\* exit status 2.
C17_EarliestRuleReported ==
    /\ SeveralViolated => EarliestReported
    /\ ScanError => ScanErrorReported

\* C17, amended: the same for argument lists that carry a query; when the
\* scan collected no query, the concise help alone is written to standard
\* error with exit status 2, whatever rules the flags violate.
C17_EarliestRuleReportedWithQuery ==
    /\ (SeveralViolated /\ args.query_parts # <<>>) => EarliestReported
    /\ (SeveralViolated /\ args.query_parts = <<>>) =>
           /\ exitCode = 2 /\ stdout = <<>>
           /\ Len(stderr) = 1 /\ stderr[1].kind = "concise_help"
    /\ ScanError => ScanErrorReported

\* -j --plain -n 0 q: rules (a) and (b) are violated, (a) is reported.
C17_Witness ==
    /\ SeveralViolated /\ args.query_parts # <<>>
    /\ RuleA /\ RuleB
    /\ OneUsageError("skillsmp: --json and --plain are mutually exclusive")

\* The text of a query-string value decoded: "+" stands for a space.
RECURSIVE UnquotePlus(_)
UnquotePlus(s) ==
    IF Len(s) = 0 THEN ""
    ELSE (IF Char(s, 1) = "+" THEN " " ELSE Char(s, 1))
         \o UnquotePlus(SubSeq(s, 2, Len(s)))

\* A query string read back as the server reads it: the name=value pairs
\* between the "&" separators, in order.
RECURSIVE QsPairs(_)
QsPairs(qs) ==
    IF qs = "" THEN <<>>
    ELSE LET amp == Partition(qs, "&")
             eq  == Partition(amp.head, "=")
         IN  <<[k |-> eq.head, has_value |-> eq.found, v |-> UnquotePlus(eq.tail)]>>
             \o QsPairs(amp.tail)

\* main has handed its one request to urlopen.
Dispatched == call.fn = "main" /\ ~args.exited /\ Len(sent) = 1

\* The request carries the endpoint and parameters of the parsed mode.
RequestMatchesMode ==
    LET r  == sent[1]
        ps == QsPairs(r.qs)
    IN  IF args.mode = "ai"
        THEN /\ r.endpoint = "ai-search"
             /\ Len(ps) = 1
             /\ ps[1].k = "q" /\ ps[1].has_value /\ ps[1].v = args.query
        ELSE /\ r.endpoint = "search"
             /\ Len(ps) = 4
             /\ \A i \in 1..4 : ps[i].has_value
             /\ ps[1].k = "q" /\ ps[1].v = args.query
             /\ ps[2].k = "limit" /\ IntParse(ps[2].v) = [ok |-> TRUE, v |-> args.limit]
             /\ ps[3].k = "page" /\ IntParse(ps[3].v) = [ok |-> TRUE, v |-> args.page]
             /\ ps[4].k = "sortBy" /\ ps[4].v = args.sort
             /\ IF args.limit_raw.some
                THEN IntParse(ps[2].v) = IntParse(args.limit_raw.v)
                ELSE ps[2].v = "10"
             /\ IF args.page_raw.some
                THEN IntParse(ps[3].v) = IntParse(args.page_raw.v)
                ELSE ps[3].v = "1"
             /\ ps[4].v = (IF args.sort_raw.some THEN args.sort_raw.v ELSE "stars")

\* The query string sent names exactly the parameters whose value is not
\* None, in order and with their values; a None parameter's name is absent.
NoneParamsOmitted ==
    LET ps    == QsPairs(sent[1].qs)
        given == {i \in 1..Len(request.params) : ~request.params[i].none}
    IN  /\ Len(ps) = Cardinality(given)
        /\ \A i \in 1..Len(request.params) :
              LET p == request.params[i]
                  n == Cardinality({j \in given : j <= i})
              IN  IF p.none
                  THEN \A j \in 1..Len(ps) : ps[j].k # p.k
                  ELSE ps[n].k = p.k /\ ps[n].has_value /\ ps[n].v = p.v

\* Standard output is the work of the one formatter the parsed output format
\* selects.
OneFormatter ==
    IF args.json
    THEN /\ Len(stdout) = 1 /\ stdout[1].kind = "result_json"
         /\ stdout[1].mode = (IF args.mode = "ai" THEN "semantic" ELSE "keyword")
    ELSE IF args.plain
    THEN \A i \in 1..Len(stdout) : stdout[i].kind = "plain_item"
    ELSE /\ Len(stdout) >= 1 /\ stdout[1].kind = "header"
         /\ \A i \in 2..Len(stdout) :
               stdout[i].kind \in {"item", "no_results", "summary"}

\* C18: after a successful parse the request goes to the endpoint of the
\* mode with exactly its parameters: search with q, limit, page and sortBy
\* equal to the parsed values (10, 1 and stars when the flag was not given),
\* ai-search with q only; a parameter whose value is absent is left out of
\* the query string; and the response is rendered by exactly the formatter
\* of the parsed output format.
C18_DispatchMatchesMode ==
    /\ Dispatched => RequestMatchesMode
    /\ Len(sent) > 0 => NoneParamsOmitted
    /\ (Dispatched /\ pc = "exit" /\ exitCode = 0) => OneFormatter

\* --limit 5 --page 2 --sort recent react testing has sent its request.
C18_Witness ==
    /\ Dispatched
    /\ sent[1].endpoint = "search"
    /\ sent[1].qs = "q=react+testing&limit=5&page=2&sortBy=recent"
    /\ pc = "exit" /\ exitCode = 0 /\ Len(stdout) > 1

====
